---- MODULE Spec2Model ----
(***************************************************************************)
(* Session management service of the FTD injection backend                 *)
(* (backend/services/sessionManagementService.js) and the Fingerprint      *)
(* model (backend/models/Fingerprint.js).                                  *)
(*                                                                         *)
(* The service is a Node.js singleton whose methods are async functions.   *)
(* Every await is a point where other handlers may run, so each method is  *)
(* modelled as a sequence of steps, one per awaited file-system or         *)
(* database call; the synchronous code between two awaits is part of the   *)
(* step that completes the first of them.  A call slot (Procs) holds one   *)
(* handler invocation: its position (pc), its arguments and local          *)
(* variables (call), its result (res).                                     *)
(*                                                                         *)
(* State of the program: the Lead collection (leads), the directory of     *)
(* session blobs (files), the launched driver processes (spawned) and the  *)
(* wall clock (now).  ncalls counts the calls made, to bound a behaviour.   *)
(* pre, lastCapture and lastRet are history variables used by the          *)
(* properties only; no action reads them in a guard.  They are recorded    *)
(* where hist holds, which is in the serial specification SpecSeq: there   *)
(* a call runs from start to return without another call in between, and   *)
(* the state in which a call is "done" is the state the call left.  Spec   *)
(* interleaves the steps of two calls.                                     *)
(*                                                                         *)
(* The Fingerprint model has its own state (the collection and the calls   *)
(* of createForLead) and its own specifications: SpecFp interleaves        *)
(* createForLead calls, SpecGen applies generateFingerprint to arguments   *)
(* chosen in the initial state.  Random choices of the code are            *)
(* nondeterministic choices over the values they can produce.              *)
(*                                                                         *)
(* The Order model (the same file) is one document: SpecOrder sets its     *)
(* status and saves it through the pre-save hook.  The schema declares the *)
(* injection fields only; SpecInject runs the injection state machine and  *)
(* the device-assignment resolution as the specification describes them.   *)
(* SpecBoot is the service right after its construction, while the         *)
(* fs.mkdir of the sessions directory is pending; in the other             *)
(* specifications the directory exists.                                    *)
(*                                                                         *)
(* Errors are named by the throw site: the code throws plain Error objects *)
(* that differ in their message only.                                      *)
(***************************************************************************)
EXTENDS Integers, FiniteSets, Sequences, TLC

\* ------------------------------------------------------------- bounds
MaxCalls == 2        \* calls of the service in one behaviour
MaxTime == 1         \* clock ticks in one behaviour
MaxOrderTime == 2    \* ticks of the clock an order is saved under
MaxWeight == 2       \* largest device ratio weight (the schema allows 10)

\* ------------------------------------------------------------- domains
Procs == {"p1", "p2"}            \* concurrently running handler invocations
SlotOrder == [p \in Procs |-> IF p = "p1" THEN 1 ELSE 2]
LeadIds == {"L1", "L2"}          \* ids a caller may pass
ExistingLeads == {"L1"}          \* ids for which a Lead document exists
Agents == {"A1", "A2"}
Orders == {"O1"}
MaxAges == {0, 1}                \* maxAgeDays arguments of the sweep

NoTime == -1                     \* an absent Date field
NoAgent == "none"                \* an absent agent reference

\* A sessionId; rnd = 0 marks the absent id (generated ids have rnd >= 1).
NoSid == [lead |-> "none", order |-> "none", ts |-> NoTime, rnd |-> 0]

\* ------------------------------------------------------------- payloads
\* A field of the payload handed to storeSession: has = FALSE is a field the
\* caller left out (undefined).
Field(h, v) == [has |-> h, v |-> v]

Payload(c, l, u) == [cookies |-> c, localStorage |-> l, userAgent |-> u]

Payloads ==
  { Payload(Field(FALSE, {}), Field(FALSE, {}), Field(FALSE, "")),
    Payload(Field(TRUE, {"ck1"}), Field(TRUE, {"k1"}), Field(TRUE, "UA1")) }

NoPayload == Payload(Field(FALSE, {}), Field(FALSE, {}), Field(FALSE, ""))

\* sessionData as storeSession builds it: `x || default` keeps x unless it
\* is falsy.  Arrays and objects, empty ones included, are truthy; the empty
\* string is falsy.
StoredPayload(p) ==
  [cookies |-> IF p.cookies.has THEN p.cookies.v ELSE {},
   localStorage |-> IF p.localStorage.has THEN p.localStorage.v ELSE {},
   userAgent |-> IF p.userAgent.has /\ p.userAgent.v # ""
                 THEN p.userAgent.v ELSE "null"]

NoData == [cookies |-> {}, localStorage |-> {}, userAgent |-> "null"]

\* ------------------------------------------------------------- blobs
\* Content of a session blob: a parsed record, or bytes that cannot be read
\* or parsed.
NoRec ==
  [kind |-> "none", sessionId |-> NoSid, leadId |-> "none", orderId |-> "none",
   createdAt |-> NoTime, sessionData |-> NoData, status |-> "none",
   lastUsed |-> NoTime, assignedAgent |-> NoAgent]

CorruptBlob == [NoRec EXCEPT !.kind = "corrupt"]

IsRecord(b) == b.kind = "record"

\* ------------------------------------------------------------- leads
NoSessionData ==
  [sessionId |-> NoSid, sessionPath |-> NoSid, status |-> "none",
   assignedAgent |-> NoAgent]

NewLead ==
  [assignedTo |-> NoAgent, isAssigned |-> FALSE,
   sessionData |-> NoSessionData]

\* ------------------------------------------------------------- calls
NoCall ==
  [op |-> "none", lead |-> "none", agent |-> NoAgent, order |-> "none",
   payload |-> NoPayload, maxAge |-> 0,
   sid |-> NoSid, rec |-> NoRec,
   todo |-> {}, cutoff |-> 0, spawn |-> "none"]

NoRes ==
  [ok |-> FALSE, err |-> "none", sessionId |-> NoSid, sessionData |-> NoData,
   createdAt |-> NoTime, lastUsed |-> NoTime, wrote |-> FALSE,
   deleted |-> 0, errors |-> 0]

NoFiles == [f \in {} |-> NoRec]

NoPre ==
  [hadActive |-> FALSE, exists |-> FALSE, lead |-> NewLead, blob |-> NoRec,
   spawned |-> {}, files |-> NoFiles, raced |-> FALSE]

\* History marks: the last successful capture of a lead (its sessionId and
\* the payload that was handed in) and the last successful retrieve (what it
\* returned), valid until an operation that may change them starts.
NoCaptureMark == [set |-> FALSE, sessionId |-> NoSid, payload |-> NoPayload]

NoRetMark == [set |-> FALSE, sessionId |-> NoSid, sessionData |-> NoData]

\* Driver processes: what the handlers registered by launchAgentBrowser have
\* seen of the process spawned for a lead and an agent.
NewDriver ==
  [running |-> TRUE, code |-> 0, scriptOutput |-> FALSE,
   scriptError |-> FALSE, failureLogged |-> FALSE]

\* ------------------------------------------------------------- fingerprints
\* A field of a constraint object that is absent reads as undefined.
Undefined == -1

\* A numeric range of deviceSpecs: min, max and (for memory) preferred.
NoRange ==
  [has |-> FALSE, min |-> Undefined, max |-> Undefined, preferred |-> <<>>]

Range(mn, mx, pref) ==
  [has |-> TRUE, min |-> mn, max |-> mx, preferred |-> pref]

\* deviceSpecs = null
NullSpecs ==
  [null |-> TRUE, memory |-> NoRange, cpu |-> FALSE, cores |-> NoRange,
   resolution |-> FALSE, width |-> NoRange, height |-> NoRange,
   pixelRatio |-> NoRange]

\* The numeric fields of the object generateFingerprint returns.
NoFingerprint ==
  [deviceType |-> "none", width |-> 0, height |-> 0,
   availWidth |-> 0, availHeight |-> 0,
   hardwareConcurrency |-> 0, deviceMemory |-> 0, devicePixelRatio |-> 0,
   plugins |-> <<>>]

NoFcall ==
  [lead |-> "none", deviceType |-> "none", specs |-> NullSpecs,
   existing |-> FALSE]

NoFres == [ok |-> FALSE, err |-> "none", id |-> 0]

\* A call of generateFingerprint: its arguments and, once it has run
\* (set), what it returned.
NoGen ==
  [set |-> FALSE, deviceType |-> "none", specs |-> NullSpecs,
   ok |-> FALSE, err |-> "none", out |-> NoFingerprint]

VARIABLES leads, files, spawned, drv, now, nextRnd, ncalls, pc, call, res,
          hist, pre, lastCapture, lastRet, sessionsDir, mkdir,
          fingerprints, fpc, fcall, fres, gen,
          order, leadType, injectionOf, orderClock, firstFulfilled

\* The state of the session service and the state of the Fingerprint model.
\* sessionsDir: the sessions directory exists; mkdir: the state of the
\* fs.mkdir the constructor started.
dirVars == <<sessionsDir, mkdir>>

sessionVars ==
  <<leads, files, spawned, drv, now, nextRnd, ncalls, pc, call, res,
    hist, pre, lastCapture, lastRet, dirVars>>

fpVars == <<fingerprints, fpc, fcall, fres, gen>>

\* The state of an Order document and of its injection.
orderVars == <<order, leadType, injectionOf, orderClock, firstFulfilled>>

vars == <<sessionVars, fpVars, orderVars>>

\* ------------------------------------------------------------- helpers
LeadExists(l) == l \in DOMAIN leads

\* retrieveSession/hasActiveSession: the lead carries a session reference.
HasRef(l) == LeadExists(l) /\ leads[l].sessionData.sessionId # NoSid

\* hasActiveSession(leadId)
HasActiveSession(l) ==
  /\ HasRef(l)
  /\ leads[l].sessionData.sessionPath \in DOMAIN files
  /\ leads[l].sessionData.status = "active"

\* The records of the store that carry status 'active' for a lead (what
\* getSessionStats counts as activeSessions, per lead).
ActiveRecords(l) ==
  {f \in DOMAIN files :
     IsRecord(files[f]) /\ files[f].leadId = l /\ files[f].status = "active"}

\* launchAgentBrowser's ownership test:
\* !(!lead.assignedTo || lead.assignedTo.toString() !== agentId)
OwnershipCheckAnyAssigned(l, a) == leads[l].assignedTo # NoAgent

OwnershipCheck(l, a) ==
  leads[l].assignedTo # NoAgent /\ leads[l].assignedTo = a

\* fs.writeFile(path, content): creates or replaces the blob.
WriteFile(path, content) ==
  [f \in DOMAIN files \cup {path} |-> IF f = path THEN content ELSE files[f]]

\* fs.unlink(path)
Unlink(path) == [f \in DOMAIN files \ {path} |-> files[f]]

InFlight(q) == pc[q] \notin {"idle", "done"}

Fail(kind) == [NoRes EXCEPT !.err = kind]

\* A history mark of lead l is forgotten.
ClearMark(marks, l, none) ==
  [k \in DOMAIN marks |-> IF k = l THEN none ELSE marks[k]]

\* A history mark of lead l is set, where the history is recorded.
SetMark(marks, l, m) ==
  [k \in DOMAIN marks |-> IF k = l /\ hist THEN m ELSE marks[k]]

\* What a call sees when it starts (history, for the properties).
Snapshot(p, l) ==
  [hadActive |-> HasActiveSession(l),
   exists |-> LeadExists(l),
   lead |-> IF hist /\ LeadExists(l) THEN leads[l] ELSE NewLead,
   blob |-> IF /\ hist
               /\ HasRef(l)
               /\ leads[l].sessionData.sessionPath \in DOMAIN files
            THEN files[leads[l].sessionData.sessionPath] ELSE NoRec,
   spawned |-> IF hist THEN spawned ELSE {},
   files |-> NoFiles,
   raced |-> \E q \in Procs \ {p} : InFlight(q) /\ call[q].lead = l]

Begin(p, l) ==
  /\ ncalls < MaxCalls
  /\ ncalls' = ncalls + 1
  /\ pre' = [q \in Procs |->
              IF q = p THEN Snapshot(p, l)
              ELSE IF InFlight(q) /\ call[q].lead = l
                   THEN [pre[q] EXCEPT !.raced = TRUE]
                   ELSE pre[q]]

\* ------------------------------------------------------------- constructor
\* ensureSessionsDirectory: the fs.mkdir({recursive: true}) the constructor
\* started, and did not wait for, completes.  It creates the directory, or
\* finds it there, or fails; the failure is logged and nothing else.
EnsureSessionsDirectory ==
  /\ mkdir = "pending"
  /\ \E created \in BOOLEAN :
       /\ sessionsDir' = (sessionsDir \/ created)
       /\ mkdir' = IF sessionsDir \/ created THEN "done" ELSE "failed"
  /\ UNCHANGED <<leads, files, spawned, drv, now, nextRnd, ncalls, pc, call,
                 res, hist, pre, lastCapture, lastRet, fpVars, orderVars>>

\* ------------------------------------------------------------- storeSession
\* generateSessionId: `session_${leadId}_${orderId}_${Date.now()}_${random}`.
\* The 8 random bytes are modelled as a value never drawn before.
GenerateSessionId(l, o) ==
  [lead |-> l, order |-> o, ts |-> now, rnd |-> nextRnd]

SessionRecord(sid, l, o, pl) ==
  [kind |-> "record", sessionId |-> sid, leadId |-> l, orderId |-> o,
   createdAt |-> now, sessionData |-> StoredPayload(pl), status |-> "active",
   lastUsed |-> now, assignedAgent |-> NoAgent]

\* Lead.findByIdAndUpdate(leadId, {$set: {'sessionData.sessionId': ...}})
SetSessionRef(doc, sid) ==
  [doc EXCEPT !.sessionData =
     [@ EXCEPT !.sessionId = sid, !.sessionPath = sid, !.status = "active"]]

\* storeSession up to the completion of fs.writeFile, which is rejected
\* (ENOENT) when the sessions directory does not exist; the catch rethrows.
StoreWrite(p, l, o, pl) ==
  /\ pc[p] = "idle"
  /\ LET sid == GenerateSessionId(l, o) IN
       /\ files' = IF sessionsDir
                   THEN WriteFile(sid, SessionRecord(sid, l, o, pl))
                   ELSE files
       /\ call' = [call EXCEPT ![p] =
            [NoCall EXCEPT !.op = "capture", !.lead = l, !.order = o,
                           !.payload = pl, !.sid = sid]]
  /\ nextRnd' = nextRnd + 1
  /\ pc' = [pc EXCEPT ![p] = IF sessionsDir THEN "store_update" ELSE "done"]
  /\ res' = [res EXCEPT ![p] =
               IF sessionsDir THEN NoRes ELSE Fail("StoreFailed")]
  /\ Begin(p, l)
  /\ lastCapture' = ClearMark(lastCapture, l, NoCaptureMark)
  /\ lastRet' = ClearMark(lastRet, l, NoRetMark)
  /\ UNCHANGED <<leads, spawned, drv, now, hist, dirVars, fpVars, orderVars>>

\* storeSession from the completion of Lead.findByIdAndUpdate to its return
\* (or its throw when the update is rejected).
StoreUpdate(p) ==
  /\ pc[p] = "store_update"
  /\ \E dbok \in BOOLEAN :
       IF dbok
       THEN /\ leads' = IF LeadExists(call[p].lead)
                        THEN [leads EXCEPT ![call[p].lead] =
                                SetSessionRef(@, call[p].sid)]
                        ELSE leads
            /\ res' = [res EXCEPT ![p] =
                 [NoRes EXCEPT !.ok = TRUE, !.sessionId = call[p].sid]]
       ELSE /\ leads' = leads
            /\ res' = [res EXCEPT ![p] = Fail("StoreFailed")]
  /\ pc' = [pc EXCEPT ![p] = "done"]
  /\ UNCHANGED <<files, spawned, drv, now, nextRnd, ncalls, hist, dirVars, fpVars, orderVars, call, pre, lastCapture, lastRet>>

\* ------------------------------------------------------------- retrieveSession
\* Lead.findById and the test of the session reference.
Lookup(p, c) ==
  IF HasRef(c.lead)
  THEN /\ call' = [call EXCEPT ![p] =
            [c EXCEPT !.sid = leads[c.lead].sessionData.sessionPath]]
       /\ pc' = [pc EXCEPT ![p] = "retr_access"]
       /\ res' = [res EXCEPT ![p] = NoRes]
  ELSE /\ call' = [call EXCEPT ![p] = c]
       /\ pc' = [pc EXCEPT ![p] = "done"]
       /\ res' = [res EXCEPT ![p] = Fail("NoSession")]

RetrieveLookup(p, l) ==
  /\ pc[p] = "idle"
  /\ Lookup(p, [NoCall EXCEPT !.op = "retrieve", !.lead = l])
  /\ Begin(p, l)
  /\ UNCHANGED <<leads, files, spawned, drv, now, nextRnd, hist, dirVars, fpVars, orderVars, lastCapture, lastRet>>

\* fs.access(sessionPath)
AccessErrorAsNoSession == "NoSession"

AccessError == "SessionUnavailable"

RetrieveAccess(p) ==
  /\ pc[p] = "retr_access"
  /\ IF call[p].sid \in DOMAIN files
     THEN /\ pc' = [pc EXCEPT ![p] = "retr_read"]
          /\ res' = res
     ELSE /\ pc' = [pc EXCEPT ![p] = "done"]
          /\ res' = [res EXCEPT ![p] = Fail(AccessError)]
  /\ UNCHANGED <<leads, files, spawned, drv, now, nextRnd, ncalls, hist, dirVars, fpVars, orderVars, call, pre,
                 lastCapture, lastRet>>

\* sessionRecord.lastUsed = new Date()
TouchMarksUsed(rec) == [rec EXCEPT !.lastUsed = now, !.status = "used"]

Touch(rec) == [rec EXCEPT !.lastUsed = now]

\* fs.readFile and JSON.parse of the blob, then the new lastUsed.
RetrieveRead(p) ==
  /\ pc[p] = "retr_read"
  /\ IF call[p].sid \in DOMAIN files /\ IsRecord(files[call[p].sid])
     THEN /\ call' = [call EXCEPT ![p].rec = Touch(files[call[p].sid])]
          /\ pc' = [pc EXCEPT ![p] = "retr_write"]
          /\ res' = res
     ELSE /\ call' = call
          /\ pc' = [pc EXCEPT ![p] = "done"]
          /\ res' = [res EXCEPT ![p] = Fail("SessionUnavailable")]
  /\ UNCHANGED <<leads, files, spawned, drv, now, nextRnd, ncalls, hist, dirVars, fpVars, orderVars, pre, lastCapture, lastRet>>

\* The object retrieveSession returns.
RetrieveResult(rec) ==
  [NoRes EXCEPT !.ok = TRUE, !.sessionData = rec.sessionData,
                !.sessionId = rec.sessionId, !.createdAt = rec.createdAt,
                !.lastUsed = rec.lastUsed, !.wrote = TRUE]

\* fs.writeFile of the record with the new lastUsed, and the return.
RetrieveWrite(p) ==
  /\ pc[p] = "retr_write"
  /\ files' = WriteFile(call[p].sid, call[p].rec)
  /\ res' = [res EXCEPT ![p] = RetrieveResult(call[p].rec)]
  /\ pc' = [pc EXCEPT ![p] =
       IF call[p].op = "launch" THEN "launch_spawn" ELSE "done"]
  /\ UNCHANGED <<leads, spawned, drv, now, nextRnd, ncalls, hist, dirVars, fpVars, orderVars, call, pre, lastCapture, lastRet>>

\* ------------------------------------------------------------- assignSessionToAgent
\* Lead.findByIdAndUpdate(leadId, {$set: {assignedTo, assignedAt, isAssigned,
\* 'sessionData.assignedAgent', 'sessionData.assignedAt'}}, {new: true})
SetAssignmentFirstWins(doc, a) ==
  IF doc.assignedTo # NoAgent THEN doc
  ELSE [doc EXCEPT !.assignedTo = a, !.isAssigned = TRUE,
                   !.sessionData = [@ EXCEPT !.assignedAgent = a]]

SetAssignment(doc, a) ==
  [doc EXCEPT !.assignedTo = a, !.isAssigned = TRUE,
              !.sessionData = [@ EXCEPT !.assignedAgent = a]]

\* assignSessionToAgent up to the completion of the lead update; it returns
\* here when the updated lead carries no sessionPath.
AssignUpdate(p, l, a) ==
  /\ pc[p] = "idle"
  /\ IF LeadExists(l)
     THEN /\ leads' = [leads EXCEPT ![l] = SetAssignment(@, a)]
          /\ call' = [call EXCEPT ![p] =
               [NoCall EXCEPT !.op = "assign", !.lead = l, !.agent = a,
                              !.sid = leads[l].sessionData.sessionPath]]
          /\ IF leads[l].sessionData.sessionPath # NoSid
             THEN /\ pc' = [pc EXCEPT ![p] = "assign_read"]
                  /\ res' = [res EXCEPT ![p] = NoRes]
             ELSE /\ pc' = [pc EXCEPT ![p] = "done"]
                  /\ res' = [res EXCEPT ![p] = [NoRes EXCEPT !.ok = TRUE]]
     ELSE /\ leads' = leads
          /\ call' = [call EXCEPT ![p] =
               [NoCall EXCEPT !.op = "assign", !.lead = l, !.agent = a]]
          /\ pc' = [pc EXCEPT ![p] = "done"]
          /\ res' = [res EXCEPT ![p] = Fail("LeadNotFound")]
  /\ Begin(p, l)
  /\ lastRet' = ClearMark(lastRet, l, NoRetMark)
  /\ UNCHANGED <<files, spawned, drv, now, nextRnd, hist, dirVars, fpVars, orderVars, lastCapture>>

\* The object assignSessionToAgent returns.
AssignResult(p, w) ==
  [NoRes EXCEPT !.ok = TRUE, !.sessionId = call[p].sid, !.wrote = w]

\* fs.readFile and JSON.parse of the blob, then the two assignments to the
\* parsed record; a failure is caught, logged and the call returns success.
AssignRead(p) ==
  /\ pc[p] = "assign_read"
  /\ IF call[p].sid \in DOMAIN files /\ IsRecord(files[call[p].sid])
     THEN /\ call' = [call EXCEPT ![p].rec =
               [files[call[p].sid] EXCEPT !.assignedAgent = call[p].agent]]
          /\ pc' = [pc EXCEPT ![p] = "assign_write"]
          /\ res' = res
     ELSE /\ call' = call
          /\ pc' = [pc EXCEPT ![p] = "done"]
          /\ res' = [res EXCEPT ![p] = AssignResult(p, FALSE)]
  /\ UNCHANGED <<leads, files, spawned, drv, now, nextRnd, ncalls, hist, dirVars, fpVars, orderVars, pre, lastCapture, lastRet>>

\* fs.writeFile of the record with the assignment, and the return.
AssignWrite(p) ==
  /\ pc[p] = "assign_write"
  /\ files' = WriteFile(call[p].sid, call[p].rec)
  /\ pc' = [pc EXCEPT ![p] = "done"]
  /\ res' = [res EXCEPT ![p] = AssignResult(p, TRUE)]
  /\ UNCHANGED <<leads, spawned, drv, now, nextRnd, ncalls, hist, dirVars, fpVars, orderVars, call, pre, lastCapture, lastRet>>

\* ------------------------------------------------------------- launchAgentBrowser
\* Lead.findById and the ownership test; retrieveSession is called next.
LaunchCheck(p, l, a) ==
  /\ pc[p] = "idle"
  /\ call' = [call EXCEPT ![p] =
       [NoCall EXCEPT !.op = "launch", !.lead = l, !.agent = a]]
  /\ IF ~LeadExists(l)
     THEN /\ pc' = [pc EXCEPT ![p] = "done"]
          /\ res' = [res EXCEPT ![p] = Fail("LeadNotFound")]
     ELSE IF ~OwnershipCheck(l, a)
     THEN /\ pc' = [pc EXCEPT ![p] = "done"]
          /\ res' = [res EXCEPT ![p] = Fail("AccessDenied")]
     ELSE /\ pc' = [pc EXCEPT ![p] = "launch_retrieve"]
          /\ res' = [res EXCEPT ![p] = NoRes]
  /\ Begin(p, l)
  /\ lastRet' = ClearMark(lastRet, l, NoRetMark)
  /\ UNCHANGED <<leads, files, spawned, drv, now, nextRnd, hist, dirVars, fpVars, orderVars, lastCapture>>

\* this.retrieveSession(leadId) called by launchAgentBrowser: its lookup; the
\* retrieve steps follow and their error is rethrown by the launch.
LaunchRetrieve(p) ==
  /\ pc[p] = "launch_retrieve"
  /\ Lookup(p, call[p])
  /\ UNCHANGED <<leads, files, spawned, drv, now, nextRnd, ncalls, hist, dirVars, fpVars, orderVars, pre, lastCapture, lastRet>>

\* What child_process.spawn can do: start the process; throw synchronously
\* (the launch rejects through its catch); or return a ChildProcess and
\* report the failure asynchronously with an 'error' event (ENOENT when
\* 'python' is not on the PATH), for which the launch registers no listener.
SpawnOutcomes == {"spawned", "throws", "error_event"}

\* spawn('python', [scriptPath, JSON.stringify(browserLaunchData)]), the
\* registration of the stdout/stderr/close listeners and the return of the
\* launch result, which does not wait for the process.
LaunchSpawn(p) ==
  /\ pc[p] = "launch_spawn"
  /\ \E o \in SpawnOutcomes :
       LET d == [lead |-> call[p].lead, agent |-> call[p].agent] IN
         /\ call' = [call EXCEPT ![p].spawn = o]
         /\ IF o = "spawned"
            THEN /\ spawned' = spawned \cup {d}
                 /\ drv' = [e \in DOMAIN drv \cup {d} |->
                              IF e = d THEN NewDriver ELSE drv[e]]
                 /\ res' = res
            ELSE /\ UNCHANGED <<spawned, drv>>
                 /\ res' = IF o = "throws"
                           THEN [res EXCEPT ![p] = Fail("DriverLaunchFailure")]
                           ELSE res
  /\ pc' = [pc EXCEPT ![p] = "done"]
  /\ UNCHANGED <<leads, files, now, nextRnd, ncalls, hist, dirVars, fpVars, orderVars, pre, lastCapture, lastRet>>

\* The launch result a caller still holds, after the 'close' listener ran
\* with the exit code: the listener only logs.
CloseFailsResult(r, code) ==
  IF code # 0 THEN Fail("DriverLaunchFailure") ELSE r

OnClose(r, code) == r

ExitCodes == {0, 1}

\* pythonProcess.stdout.on('data') / stderr.on('data'): the output is
\* appended to scriptOutput / scriptError and logged.
DriverData(d, stream) ==
  /\ d \in DOMAIN drv
  /\ drv[d].running
  /\ IF stream = "stdout"
     THEN ~drv[d].scriptOutput /\ drv' = [drv EXCEPT ![d].scriptOutput = TRUE]
     ELSE ~drv[d].scriptError /\ drv' = [drv EXCEPT ![d].scriptError = TRUE]
  /\ UNCHANGED <<leads, files, spawned, now, nextRnd, ncalls, pc, call, res,
                 hist, dirVars, fpVars, orderVars, pre, lastCapture, lastRet>>

\* pythonProcess.on('close'): the exit code is logged, and a failure is
\* logged when it is not 0.
DriverClose(d, code) ==
  /\ d \in DOMAIN drv
  /\ drv[d].running
  /\ drv' = [drv EXCEPT ![d].running = FALSE, ![d].code = code,
                        ![d].failureLogged = (code # 0)]
  /\ res' = [p \in Procs |->
               IF /\ pc[p] = "done" /\ call[p].op = "launch"
                  /\ call[p].spawn = "spawned"
                  /\ call[p].lead = d.lead /\ call[p].agent = d.agent
               THEN OnClose(res[p], code) ELSE res[p]]
  /\ UNCHANGED <<leads, files, spawned, now, nextRnd, ncalls, pc, call,
                 hist, dirVars, fpVars, orderVars, pre, lastCapture, lastRet>>

\* ------------------------------------------------------------- cleanupOldSessions
\* The cutoff date and fs.readdir(sessionsDir).
SweepStart(p, m) ==
  /\ pc[p] = "idle"
  /\ call' = [call EXCEPT ![p] =
       [NoCall EXCEPT !.op = "sweep", !.maxAge = m, !.cutoff = now - m,
                      !.todo = DOMAIN files]]
  /\ pc' = [pc EXCEPT ![p] = IF DOMAIN files = {} THEN "done" ELSE "sweep_read"]
  /\ res' = [res EXCEPT ![p] = [NoRes EXCEPT !.ok = TRUE]]
  /\ pre' = [pre EXCEPT ![p] =
               [NoPre EXCEPT !.files = IF hist THEN files ELSE NoFiles]]
  /\ ncalls < MaxCalls
  /\ ncalls' = ncalls + 1
  /\ lastCapture' = [l \in LeadIds |-> NoCaptureMark]
  /\ lastRet' = [l \in LeadIds |-> NoRetMark]
  /\ UNCHANGED <<leads, files, spawned, drv, now, nextRnd, hist, dirVars, fpVars, orderVars>>

\* The loop goes on to the next file, or the sweep returns its counts.
SweepNextPc(todo) == IF todo = {} THEN "done" ELSE "sweep_read"

\* new Date(sessionRecord.createdAt) < cutoffDate
IsExpiredInclusive(rec, cutoff) == rec.createdAt <= cutoff

IsExpired(rec, cutoff) == rec.createdAt < cutoff

\* One iteration up to the age test: fs.readFile and JSON.parse of a listed
\* file; an error is counted and the loop continues.
SweepRead(p) ==
  /\ pc[p] = "sweep_read"
  /\ \E f \in call[p].todo :
       IF f \in DOMAIN files /\ IsRecord(files[f])
       THEN IF IsExpired(files[f], call[p].cutoff)
            THEN /\ call' = [call EXCEPT ![p].todo = @ \ {f}, ![p].sid = f,
                                         ![p].rec = files[f]]
                 /\ pc' = [pc EXCEPT ![p] = "sweep_unlink"]
                 /\ res' = res
            ELSE /\ call' = [call EXCEPT ![p].todo = @ \ {f}]
                 /\ pc' = [pc EXCEPT ![p] = SweepNextPc(call[p].todo \ {f})]
                 /\ res' = res
       ELSE /\ call' = [call EXCEPT ![p].todo = @ \ {f}]
            /\ pc' = [pc EXCEPT ![p] = SweepNextPc(call[p].todo \ {f})]
            /\ res' = [res EXCEPT ![p].errors = @ + 1]
  /\ UNCHANGED <<leads, files, spawned, drv, now, nextRnd, ncalls, hist, dirVars, fpVars, orderVars, pre, lastCapture, lastRet>>

\* fs.unlink(filePath) and deletedCount++; ENOENT is counted as an error.
SweepUnlink(p) ==
  /\ pc[p] = "sweep_unlink"
  /\ IF call[p].sid \in DOMAIN files
     THEN /\ files' = Unlink(call[p].sid)
          /\ res' = [res EXCEPT ![p].deleted = @ + 1]
          /\ pc' = [pc EXCEPT ![p] = "sweep_lead"]
     ELSE /\ files' = files
          /\ res' = [res EXCEPT ![p].errors = @ + 1]
          /\ pc' = [pc EXCEPT ![p] = SweepNextPc(call[p].todo)]
  /\ UNCHANGED <<leads, spawned, drv, now, nextRnd, ncalls, hist, dirVars, fpVars, orderVars, call, pre, lastCapture, lastRet>>

\* Lead.findByIdAndUpdate(sessionRecord.leadId, {$unset: {sessionData: 1}})
UnsetSessionData(doc) == [doc EXCEPT !.sessionData = NoSessionData]

SweepLead(p) ==
  /\ pc[p] = "sweep_lead"
  /\ \E dbok \in BOOLEAN :
       IF dbok
       THEN /\ leads' = IF LeadExists(call[p].rec.leadId)
                        THEN [leads EXCEPT ![call[p].rec.leadId] =
                                UnsetSessionData(@)]
                        ELSE leads
            /\ res' = res
       ELSE /\ leads' = leads
            /\ res' = [res EXCEPT ![p].errors = @ + 1]
  /\ pc' = [pc EXCEPT ![p] = SweepNextPc(call[p].todo)]
  /\ UNCHANGED <<files, spawned, drv, now, nextRnd, ncalls, hist, dirVars, fpVars, orderVars, call, pre, lastCapture, lastRet>>

\* ------------------------------------------------------------- environment
\* The caller takes the result; the slot is free for the next call.
Return(p) ==
  /\ pc[p] = "done"
  /\ pc' = [pc EXCEPT ![p] = "idle"]
  /\ call' = [call EXCEPT ![p] = NoCall]
  /\ res' = [res EXCEPT ![p] = NoRes]
  /\ pre' = [pre EXCEPT ![p] = NoPre]
  /\ lastCapture' =
       IF call[p].op = "capture"
       THEN SetMark(lastCapture, call[p].lead,
               IF res[p].ok
               THEN [set |-> TRUE, sessionId |-> res[p].sessionId,
                     payload |-> call[p].payload]
               ELSE NoCaptureMark)
       ELSE lastCapture
  /\ lastRet' =
       IF call[p].op = "retrieve"
       THEN SetMark(lastRet, call[p].lead,
               IF res[p].ok
               THEN [set |-> TRUE, sessionId |-> res[p].sessionId,
                     sessionData |-> res[p].sessionData]
               ELSE NoRetMark)
       ELSE lastRet
  /\ UNCHANGED <<leads, files, spawned, drv, now, nextRnd, ncalls, hist, dirVars, fpVars, orderVars>>

\* Time passes.  The clock counts days (the unit of maxAgeDays) and a call
\* is over within one value of it.
Tick ==
  /\ now < MaxTime
  /\ \A q \in Procs : ~InFlight(q)
  /\ now' = now + 1
  /\ UNCHANGED <<leads, files, spawned, drv, nextRnd, ncalls, hist, dirVars, fpVars, orderVars, pc, call, res, pre,
                 lastCapture, lastRet>>

\* Storage corruption: a blob becomes unreadable or unparsable.
Corrupt(f) ==
  /\ f \in DOMAIN files
  /\ IsRecord(files[f])
  /\ files' = [files EXCEPT ![f] = CorruptBlob]
  /\ lastCapture' = [l \in LeadIds |-> NoCaptureMark]
  /\ lastRet' = [l \in LeadIds |-> NoRetMark]
  /\ UNCHANGED <<leads, spawned, drv, now, nextRnd, ncalls, hist, dirVars, fpVars, orderVars, pc, call, res, pre>>

\* ------------------------------------------------------------- generateFingerprint
ValidDeviceTypes == {"windows", "android", "ios", "mac"}

\* Device types a caller may pass; "linux" is not a key of deviceConfigs.
DeviceTypes == ValidDeviceTypes \cup {"linux"}

deviceConfigs ==
  [windows |-> [width |-> 1920, height |-> 1080, availWidth |-> 1920,
                availHeight |-> 1040, devicePixelRatio |-> 1,
                hardwareConcurrency |-> 8, deviceMemory |-> 8],
   android |-> [width |-> 428, height |-> 926, availWidth |-> 428,
                availHeight |-> 926, devicePixelRatio |-> 3,
                hardwareConcurrency |-> 8, deviceMemory |-> 8],
   ios     |-> [width |-> 428, height |-> 926, availWidth |-> 428,
                availHeight |-> 926, devicePixelRatio |-> 3,
                hardwareConcurrency |-> 6, deviceMemory |-> 6],
   mac     |-> [width |-> 2560, height |-> 1440, availWidth |-> 2560,
                availHeight |-> 1400, devicePixelRatio |-> 2,
                hardwareConcurrency |-> 8, deviceMemory |-> 16]]

\* deviceConfigs[deviceType] || deviceConfigs.windows
Config(t) ==
  IF t \in ValidDeviceTypes THEN deviceConfigs[t] ELSE deviceConfigs["windows"]

\* x || d for a number: undefined and 0 are falsy.
OrDefault(x, d) == IF x = Undefined \/ x = 0 THEN d ELSE x

\* Math.floor(Math.random() * (mx - mn + 1)) + mn with Math.random() in
\* [0, 1): mn..mx when the factor is positive; when it is not, the product
\* lies in (mx - mn + 1, 0] and the result in (mx + 1)..mn.
RandomInt(mn, mx) == IF mx - mn + 1 > 0 THEN mn..mx ELSE (mx + 1)..mn

\* list[Math.floor(Math.random() * list.length)]
RandomPick(list) == {list[i] : i \in 1..Len(list)}

\* Math.random() * (mx - mn) + mn, a real number of [mn, mx) (of (mx, mn]
\* when mx < mn): the integers of that interval stand for it.
RandomReal(mn, mx) ==
  IF mx > mn THEN mn..(mx - 1)
  ELSE IF mx = mn THEN {mn} ELSE (mx + 1)..mn

\* randomVariation(base, variations) = Math.max(1, base + variation)
RandomVariation(base, variations) ==
  {IF base + v > 1 THEN base + v ELSE 1 : v \in variations}

\* variations.hardwareConcurrency
CoreVariations(t) ==
  IF t \in {"android", "ios"} THEN {0, 1, -1} ELSE {0, 1, -1, 2, -2}

MemoryValues(t, specs) ==
  IF specs.memory.has
  THEN IF Len(specs.memory.preferred) > 0
       THEN RandomPick(specs.memory.preferred)
       ELSE RandomInt(OrDefault(specs.memory.min, 4),
                      OrDefault(specs.memory.max, 16))
  ELSE RandomVariation(Config(t).deviceMemory, {0, 1, -1})

CoreValues(t, specs) ==
  IF specs.cores.has
  THEN RandomInt(OrDefault(specs.cores.min, 2), OrDefault(specs.cores.max, 8))
  ELSE IF specs.cpu THEN {Config(t).hardwareConcurrency}
  ELSE RandomVariation(Config(t).hardwareConcurrency, CoreVariations(t))

WidthValues(t, specs) ==
  IF ~specs.resolution
  THEN RandomVariation(Config(t).width, {-2, -1, 0, 1, 2})
  ELSE IF specs.width.has
       THEN RandomInt(OrDefault(specs.width.min, 1280),
                      OrDefault(specs.width.max, 1920))
       ELSE {Config(t).width}

HeightValues(t, specs) ==
  IF ~specs.resolution
  THEN RandomVariation(Config(t).height, {-2, -1, 0, 1, 2})
  ELSE IF specs.height.has
       THEN RandomInt(OrDefault(specs.height.min, 720),
                      OrDefault(specs.height.max, 1080))
       ELSE {Config(t).height}

PixelRatioValues(t, specs) ==
  IF specs.pixelRatio.has
  THEN RandomReal(OrDefault(specs.pixelRatio.min, 1),
                  OrDefault(specs.pixelRatio.max, 2))
  ELSE {Config(t).devicePixelRatio}

\* screen.availWidth follows the width wherever the width is set, and is
\* the default otherwise.
AvailWidth(t, specs, w) ==
  IF ~specs.resolution \/ specs.width.has THEN w ELSE Config(t).availWidth

\* finalConfig.screen.height - 40 ("account for taskbar/status bar")
BelowTaskbarAddsBar(h) == h + 40

BelowTaskbar(h) == h - 40

\* screen.availHeight likewise, less the taskbar.
AvailHeight(t, specs, h) ==
  IF ~specs.resolution \/ specs.height.has
  THEN BelowTaskbar(h) ELSE Config(t).availHeight

\* plugins: the PDF plugin for the desktop types, none otherwise.
Plugins(t) ==
  IF t \in {"windows", "mac"} THEN <<"Chrome PDF Plugin">> ELSE <<>>

\* Every object generateFingerprint(deviceType, createdBy, deviceSpecs) can
\* return (its numeric fields and its plugin list).  The function has no
\* throw.
GenerateFingerprint(t, specs) ==
  {[deviceType |-> t, width |-> w, height |-> h,
    availWidth |-> AvailWidth(t, specs, w),
    availHeight |-> AvailHeight(t, specs, h),
    hardwareConcurrency |-> c, deviceMemory |-> m, devicePixelRatio |-> r,
    plugins |-> Plugins(t)] :
     w \in WidthValues(t, specs), h \in HeightValues(t, specs),
     c \in CoreValues(t, specs), m \in MemoryValues(t, specs),
     r \in PixelRatioValues(t, specs)}

\* Constraint objects a caller passes.  Narrow: every range is given and
\* holds two values.
NarrowSpecs ==
  [null |-> FALSE, memory |-> Range(4, 5, <<>>), cpu |-> TRUE,
   cores |-> Range(2, 3, <<>>), resolution |-> TRUE,
   width |-> Range(1280, 1281, <<>>), height |-> Range(720, 721, <<>>),
   pixelRatio |-> Range(1, 3, <<>>)]

\* Exact: every range holds one value.
ExactSpecs ==
  [null |-> FALSE, memory |-> Range(8, 8, <<>>), cpu |-> TRUE,
   cores |-> Range(4, 4, <<>>), resolution |-> TRUE,
   width |-> Range(1366, 1366, <<>>), height |-> Range(768, 768, <<>>),
   pixelRatio |-> Range(2, 2, <<>>)]

SpecsSet ==
  { NullSpecs,
    NarrowSpecs,
    ExactSpecs,
    \* a preferred list beside the memory range
    [ExactSpecs EXCEPT !.memory = Range(4, 8, <<16, 32>>)],
    \* min > max, one field at a time
    [ExactSpecs EXCEPT !.memory = Range(8, 4, <<>>)],
    [ExactSpecs EXCEPT !.cores = Range(4, 2, <<>>)],
    [ExactSpecs EXCEPT !.width = Range(1920, 1280, <<>>)],
    [ExactSpecs EXCEPT !.height = Range(1080, 720, <<>>)],
    [ExactSpecs EXCEPT !.pixelRatio = Range(3, 1, <<>>)],
    \* a bound of 0, and a bound that is left out
    [ExactSpecs EXCEPT !.memory = Range(0, 2, <<>>)],
    [ExactSpecs EXCEPT !.cores = Range(Undefined, 1, <<>>)],
    \* constraint objects that are partly there
    [NullSpecs EXCEPT !.null = FALSE, !.resolution = TRUE,
                      !.width = Range(1280, 1282, <<>>)],
    [NullSpecs EXCEPT !.null = FALSE, !.cpu = TRUE,
                      !.memory = Range(4, 6, <<>>)] }

\* A caller runs generateFingerprint on the arguments it holds.
Generate ==
  /\ ~gen.set
  /\ \E o \in GenerateFingerprint(gen.deviceType, gen.specs) :
       gen' = [gen EXCEPT !.set = TRUE, !.ok = TRUE, !.out = o]
  /\ UNCHANGED <<sessionVars, orderVars, fingerprints, fpc, fcall, fres>>

\* ------------------------------------------------------------- createForLead
\* Constraint objects createForLead is called with.
CreateSpecs == {ExactSpecs}

\* The documents of the collection that belong to lead l.
FingerprintsOf(l) == {d \in fingerprints : d.leadId = l}

FpFail(kind) == [NoFres EXCEPT !.err = kind]

\* createForLead up to the completion of this.findOne({ leadId }): the
\* deviceType is validated and the collection is queried.
CreateFind(p, l, t, specs) ==
  /\ fpc[p] = "idle"
  /\ IF t \notin ValidDeviceTypes
     THEN /\ fpc' = [fpc EXCEPT ![p] = "done"]
          /\ fres' = [fres EXCEPT ![p] = FpFail("InvalidDeviceType")]
          /\ fcall' = [fcall EXCEPT ![p] =
               [NoFcall EXCEPT !.lead = l, !.deviceType = t, !.specs = specs]]
     ELSE /\ fpc' = [fpc EXCEPT ![p] = "fp_create"]
          /\ fres' = [fres EXCEPT ![p] = NoFres]
          /\ fcall' = [fcall EXCEPT ![p] =
               [lead |-> l, deviceType |-> t, specs |-> specs,
                existing |-> FingerprintsOf(l) # {}]]
  /\ UNCHANGED <<sessionVars, orderVars, fingerprints, gen>>

\* The unique index on leadId (unique: true, sparse: true): an insert is
\* refused with a duplicate key error when a document of the lead exists.
InsertAllowedNoIndex(coll, doc) == TRUE

InsertAllowed(coll, doc) == \A d \in coll : d.leadId # doc.leadId

\* createForLead from the result of findOne to its return: the existence
\* test, generateFingerprint and this.create(fingerprintData).
CreateInsert(p) ==
  /\ fpc[p] = "fp_create"
  /\ IF fcall[p].existing
     THEN /\ fres' = [fres EXCEPT ![p] = FpFail("DuplicateFingerprint")]
          /\ fingerprints' = fingerprints
     ELSE \E o \in GenerateFingerprint(fcall[p].deviceType, fcall[p].specs) :
            LET doc == [id |-> Cardinality(fingerprints) + 1,
                        leadId |-> fcall[p].lead, fp |-> o]
            IN IF InsertAllowed(fingerprints, doc)
               THEN /\ fingerprints' = fingerprints \cup {doc}
                    /\ fres' = [fres EXCEPT ![p] =
                         [NoFres EXCEPT !.ok = TRUE, !.id = doc.id]]
               ELSE /\ fingerprints' = fingerprints
                    /\ fres' = [fres EXCEPT ![p] = FpFail("DuplicateKey")]
  /\ fpc' = [fpc EXCEPT ![p] = "done"]
  /\ UNCHANGED <<sessionVars, orderVars, fcall, gen>>

\* The caller takes the result of createForLead.
FpReturn(p) ==
  /\ fpc[p] = "done"
  /\ fpc' = [fpc EXCEPT ![p] = "idle"]
  /\ fcall' = [fcall EXCEPT ![p] = NoFcall]
  /\ fres' = [fres EXCEPT ![p] = NoFres]
  /\ UNCHANGED <<sessionVars, orderVars, fingerprints, gen>>

\* ------------------------------------------------------------- Order
\* The Order document (models/Fingerprint.js, orderSchema): its status, the
\* dates its save hook stamps, and the injection fields the schema declares.
OrderStatuses == {"fulfilled", "partial", "pending", "cancelled"}

InjectionStatuses == {"pending", "in_progress", "completed", "failed", "paused"}

FtdStatuses == {"pending", "skipped", "manual_fill_required", "completed"}

SelectionModes == {"individual", "bulk", "ratio", "random"}

LeadTypes == {"ftd", "filler", "cold", "live"}

\* injectionSettings.includeTypes has a flag for these lead types only.
IncludeKeysWithFtd == {"ftd", "filler", "cold", "live"}

IncludeKeys == {"filler", "cold", "live"}

NoDevice == "none"

\* A new document with the defaults of the schema.  statusModified is
\* isModified("status").
NewOrder ==
  [status |-> "pending", statusModified |-> FALSE,
   completedAt |-> NoTime, cancelledAt |-> NoTime,
   injectionStatus |-> "pending", ftdStatus |-> "pending",
   includeTypes |-> [k \in IncludeKeys |-> TRUE],
   selectionMode |-> "random", bulkDeviceType |-> NoDevice,
   deviceRatio |-> [d \in ValidDeviceTypes |-> 0],
   individualAssignments |-> [l \in {} |-> NoDevice],
   availableDeviceTypes |-> {}]

\* The hook without the test of the date it is about to set.
PreSaveRestamps(o, t) ==
  IF o.statusModified
  THEN IF o.status = "fulfilled" THEN [o EXCEPT !.completedAt = t]
       ELSE IF o.status = "cancelled" THEN [o EXCEPT !.cancelledAt = t]
       ELSE o
  ELSE o

\* orderSchema.pre("save") at time t.
PreSave(o, t) ==
  IF o.statusModified
  THEN IF o.status = "fulfilled" /\ o.completedAt = NoTime
       THEN [o EXCEPT !.completedAt = t]
       ELSE IF o.status = "cancelled" /\ o.cancelledAt = NoTime
            THEN [o EXCEPT !.cancelledAt = t]
            ELSE o
  ELSE o

\* order.status = s: the path is marked modified when the value changes.
SetStatus(s) ==
  /\ order' = [order EXCEPT !.status = s,
                            !.statusModified = @ \/ s # order.status]
  /\ UNCHANGED <<sessionVars, fpVars, leadType, injectionOf, orderClock,
                 firstFulfilled>>

\* order.save(): the hook runs, then the document is written; a write that
\* is rejected leaves the document as the hook left it, still modified.
\* firstFulfilled is the time of the first save that found the status
\* changed to fulfilled.
Save ==
  /\ \E ok \in BOOLEAN :
       LET o == PreSave(order, orderClock) IN
         order' = IF ok THEN [o EXCEPT !.statusModified = FALSE] ELSE o
  /\ firstFulfilled' =
       IF order.statusModified /\ order.status = "fulfilled"
          /\ firstFulfilled = NoTime
       THEN orderClock ELSE firstFulfilled
  /\ UNCHANGED <<sessionVars, fpVars, leadType, injectionOf, orderClock>>

\* Time passes between the saves.
OrderTick ==
  /\ orderClock < MaxOrderTime
  /\ orderClock' = orderClock + 1
  /\ UNCHANGED <<sessionVars, fpVars, order, leadType, injectionOf, firstFulfilled>>

\* ------------------------------------------------------------- injection
\* The injection of an order's leads.  The schema declares its fields; the
\* state machine and the device-assignment resolution are modelled from the
\* specification (4.3 InjectionStateMachine).
OrderLeads == {"l1", "l2"}

Weights == [ValidDeviceTypes -> 0..MaxWeight]

DeviceOrder == <<"windows", "android", "ios", "mac">>

NoInjection == [device |-> NoDevice, injected |-> "no"]

\* A lead is injected automatically when the order includes its type.
Automated(o, type) == type \in IncludeKeys /\ o.includeTypes[type]

Cumulative(w, i) ==
  LET RECURSIVE Sum(_)
      Sum(j) == IF j = 0 THEN 0 ELSE Sum(j - 1) + w[DeviceOrder[j]]
  IN Sum(i)

\* The draw r falls on a boundary of the cumulative weights.
RatioPickInclusive(w, r) ==
  LET i == CHOOSE i \in 1..Len(DeviceOrder) :
             /\ r <= Cumulative(w, i)
             /\ \A j \in 1..(i - 1) : ~(r <= Cumulative(w, j))
  IN DeviceOrder[i]

\* The category a draw r in 0..total-1 falls into.
RatioPick(w, r) ==
  LET i == CHOOSE i \in 1..Len(DeviceOrder) :
             /\ r < Cumulative(w, i)
             /\ \A j \in 1..(i - 1) : ~(r < Cumulative(w, j))
  IN DeviceOrder[i]

\* The device types the resolution can give lead l of order o; "error"
\* when individual mode has no entry for the lead.
Resolve(o, l) ==
  CASE o.selectionMode = "individual" ->
         IF l \in DOMAIN o.individualAssignments
         THEN {o.individualAssignments[l]} ELSE {"error"}
    [] o.selectionMode = "bulk" -> {o.bulkDeviceType}
    [] o.selectionMode = "ratio" ->
         {RatioPick(o.deviceRatio, r) :
            r \in 0..(Cumulative(o.deviceRatio, Len(DeviceOrder)) - 1)}
    [] OTHER ->
         IF o.availableDeviceTypes = {} THEN ValidDeviceTypes
         ELSE o.availableDeviceTypes

\* A paused injection is resumed after it ended as well.
CanResumeEnded(s) == s \in {"paused", "completed"}

CanResume(s) == s = "paused"

\* Processing starts: the ftd leads of the order are left to manual filling.
StartInjection ==
  /\ order.injectionStatus = "pending"
  /\ order' = [order EXCEPT
       !.injectionStatus = "in_progress",
       !.ftdStatus = IF \E l \in DOMAIN leadType : leadType[l] = "ftd"
                     THEN "manual_fill_required" ELSE @]
  /\ UNCHANGED <<sessionVars, fpVars, leadType, injectionOf, orderClock,
                 firstFulfilled>>

\* The device type of one lead is resolved.
ResolveDevice(l) ==
  /\ order.injectionStatus = "in_progress"
  /\ Automated(order, leadType[l])
  /\ injectionOf[l].device = NoDevice
  /\ \E d \in Resolve(order, l) :
       injectionOf' = [injectionOf EXCEPT ![l].device = d]
  /\ UNCHANGED <<sessionVars, fpVars, order, leadType, orderClock,
                 firstFulfilled>>

\* One lead with a device type is injected, and that succeeds or fails.
InjectLead(l) ==
  /\ order.injectionStatus = "in_progress"
  /\ injectionOf[l].device \in ValidDeviceTypes
  /\ injectionOf[l].injected = "no"
  /\ \E r \in {"ok", "failed"} :
       injectionOf' = [injectionOf EXCEPT ![l].injected = r]
  /\ UNCHANGED <<sessionVars, fpVars, order, leadType, orderClock,
                 firstFulfilled>>

SetInjectionStatus(s) ==
  /\ order' = [order EXCEPT !.injectionStatus = s]
  /\ UNCHANGED <<sessionVars, fpVars, leadType, injectionOf, orderClock,
                 firstFulfilled>>

PauseInjection ==
  /\ order.injectionStatus = "in_progress"
  /\ SetInjectionStatus("paused")

ResumeInjection ==
  /\ CanResume(order.injectionStatus)
  /\ SetInjectionStatus("in_progress")

\* Every automated lead was injected, or could not be given a device type.
CompleteInjection ==
  /\ order.injectionStatus = "in_progress"
  /\ \A l \in DOMAIN leadType :
       Automated(order, leadType[l])
         => \/ injectionOf[l].device = "error"
            \/ injectionOf[l].injected # "no"
  /\ SetInjectionStatus("completed")

\* An unrecoverable driver error.
FailInjection ==
  /\ order.injectionStatus # "failed"
  /\ SetInjectionStatus("failed")

\* ------------------------------------------------------------- initial states
\* The Fingerprint collection is empty and no call of the model is running.
FpInit ==
  /\ fingerprints = {}
  /\ fpc = [p \in Procs |-> "idle"]
  /\ fcall = [p \in Procs |-> NoFcall]
  /\ fres = [p \in Procs |-> NoFres]
  /\ gen = NoGen

\* A new order without leads, and no injection.
OrderIdle ==
  /\ order = NewOrder
  /\ leadType = [l \in {} |-> "none"]
  /\ injectionOf = [l \in {} |-> [device |-> NoDevice, injected |-> "no"]]
  /\ orderClock = 0
  /\ firstFulfilled = NoTime

\* The service is constructed over the blobs and the leads that earlier runs
\* left behind: nothing, or one session captured for lead L1 at time 0.
Payload0 == Payload(Field(TRUE, {"ck1"}), Field(TRUE, {"k1"}), Field(TRUE, "UA1"))

InitState ==
  /\ now = 0
  /\ \E stored \in BOOLEAN :
       IF stored
       THEN /\ nextRnd = 2
            /\ LET sid == [lead |-> "L1", order |-> "O1", ts |-> 0, rnd |-> 1] IN
                 /\ files = [f \in {sid} |->
                               [kind |-> "record", sessionId |-> sid,
                                leadId |-> "L1", orderId |-> "O1",
                                createdAt |-> 0,
                                sessionData |-> StoredPayload(Payload0),
                                status |-> "active", lastUsed |-> 0,
                                assignedAgent |-> NoAgent]]
                 /\ leads = [l \in ExistingLeads |-> SetSessionRef(NewLead, sid)]
       ELSE /\ nextRnd = 1
            /\ files = NoFiles
            /\ leads = [l \in ExistingLeads |-> NewLead]
  /\ spawned = {}
  /\ drv = [d \in {} |-> NewDriver]
  /\ ncalls = 0
  /\ pc = [p \in Procs |-> "idle"]
  /\ call = [p \in Procs |-> NoCall]
  /\ res = [p \in Procs |-> NoRes]
  /\ pre = [p \in Procs |-> NoPre]
  /\ lastCapture = [l \in LeadIds |-> NoCaptureMark]
  /\ lastRet = [l \in LeadIds |-> NoRetMark]
  /\ sessionsDir = TRUE
  /\ mkdir = "done"
  /\ FpInit
  /\ OrderIdle

\* hist says whether the history of the calls (what a call saw when it
\* started, the last capture and retrieve of a lead) is recorded.
Init == InitState /\ hist = FALSE

InitSeq == InitState /\ hist = TRUE

\* ------------------------------------------------------------- specifications
\* Call slots are anonymous: a call takes the first free slot.
FirstFree(p) == \A q \in Procs : pc[q] = "idle" => SlotOrder[p] <= SlotOrder[q]

Start(p) ==
  \/ \E l \in LeadIds, o \in Orders, pl \in Payloads :
       StoreWrite(p, l, o, pl)
  \/ \E l \in LeadIds : RetrieveLookup(p, l)
  \/ \E l \in LeadIds, a \in Agents : AssignUpdate(p, l, a)
  \/ \E l \in LeadIds, a \in Agents : LaunchCheck(p, l, a)
  \/ \E m \in MaxAges : SweepStart(p, m)

Step(p) ==
  \/ StoreUpdate(p)
  \/ RetrieveAccess(p)
  \/ RetrieveRead(p)
  \/ RetrieveWrite(p)
  \/ AssignRead(p)
  \/ AssignWrite(p)
  \/ LaunchRetrieve(p)
  \/ LaunchSpawn(p)
  \/ SweepRead(p)
  \/ SweepUnlink(p)
  \/ SweepLead(p)
  \/ Return(p)

\* The driver processes write output and exit on their own.
Driver ==
  \/ \E d \in DOMAIN drv, stream \in {"stdout", "stderr"} : DriverData(d, stream)
  \/ \E d \in DOMAIN drv, code \in ExitCodes : DriverClose(d, code)

Quiet == \A q \in Procs : pc[q] = "idle"

\* Handlers interleave at their awaits.
Next ==
  \/ \E p \in Procs : FirstFree(p) /\ Start(p)
  \/ \E p \in Procs : Step(p)
  \/ Tick
  \/ \E f \in DOMAIN files : Corrupt(f)
  \/ Driver

Spec == Init /\ [][Next]_vars

\* One call at a time: a call starts, and the storage is corrupted, only
\* while no other call is running or waiting to be returned.
NextSeq ==
  \/ \E p \in Procs : Quiet /\ FirstFree(p) /\ Start(p)
  \/ \E p \in Procs : Step(p)
  \/ Tick
  \/ \E f \in DOMAIN files : Quiet /\ Corrupt(f)
  \/ Driver

SpecSeq == InitSeq /\ [][NextSeq]_vars

\* The session service at rest, with an empty store in its directory.
SessionIdle ==
  /\ now = 0
  /\ nextRnd = 1
  /\ files = NoFiles
  /\ leads = [l \in ExistingLeads |-> NewLead]
  /\ spawned = {}
  /\ drv = [d \in {} |-> NewDriver]
  /\ ncalls = 0
  /\ pc = [p \in Procs |-> "idle"]
  /\ call = [p \in Procs |-> NoCall]
  /\ res = [p \in Procs |-> NoRes]
  /\ pre = [p \in Procs |-> NoPre]
  /\ lastCapture = [l \in LeadIds |-> NoCaptureMark]
  /\ lastRet = [l \in LeadIds |-> NoRetMark]
  /\ hist = FALSE
  /\ sessionsDir = TRUE
  /\ mkdir = "done"

\* generateFingerprint as a function of its arguments: every device type
\* with every constraint object of SpecsSet.
InitGen ==
  /\ SessionIdle
  /\ OrderIdle
  /\ fingerprints = {}
  /\ fpc = [p \in Procs |-> "idle"]
  /\ fcall = [p \in Procs |-> NoFcall]
  /\ fres = [p \in Procs |-> NoFres]
  /\ \E t \in DeviceTypes, s \in SpecsSet :
       gen = [NoGen EXCEPT !.deviceType = t, !.specs = s]

NextGen == Generate

\* createForLead calls interleave at their awaits, over a collection that
\* starts empty.
InitFp == SessionIdle /\ FpInit /\ OrderIdle

NextFp ==
  \/ \E p \in Procs, l \in LeadIds, t \in DeviceTypes, s \in CreateSpecs :
       CreateFind(p, l, t, s)
  \/ \E p \in Procs : CreateInsert(p)
  \/ \E p \in Procs : FpReturn(p)

SpecFp == InitFp /\ [][NextFp]_vars

SpecGen == InitGen /\ [][NextGen]_vars

\* The service right after its construction: the fs.mkdir of the constructor
\* is pending, over a directory that is absent or that an earlier run left
\* (empty); captures are called from then on.
InitBoot ==
  /\ now = 0
  /\ nextRnd = 1
  /\ files = NoFiles
  /\ leads = [l \in ExistingLeads |-> NewLead]
  /\ spawned = {}
  /\ drv = [d \in {} |-> NewDriver]
  /\ ncalls = 0
  /\ pc = [p \in Procs |-> "idle"]
  /\ call = [p \in Procs |-> NoCall]
  /\ res = [p \in Procs |-> NoRes]
  /\ pre = [p \in Procs |-> NoPre]
  /\ lastCapture = [l \in LeadIds |-> NoCaptureMark]
  /\ lastRet = [l \in LeadIds |-> NoRetMark]
  /\ hist = FALSE
  /\ sessionsDir \in BOOLEAN
  /\ mkdir = "pending"
  /\ FpInit
  /\ OrderIdle

NextBoot ==
  \/ EnsureSessionsDirectory
  \/ \E p \in Procs, l \in LeadIds, o \in Orders, pl \in Payloads :
       FirstFree(p) /\ StoreWrite(p, l, o, pl)
  \/ \E p \in Procs : StoreUpdate(p)
  \/ \E p \in Procs : Return(p)

SpecBoot == InitBoot /\ [][NextBoot]_vars

\* An Order document from its creation: its status is set and it is saved,
\* in any order, as time passes.
InitOrder == SessionIdle /\ FpInit /\ OrderIdle

NextOrder ==
  \/ \E s \in OrderStatuses : SetStatus(s)
  \/ Save
  \/ OrderTick

SpecOrder == InitOrder /\ [][NextOrder]_vars

\* The injection of an order of two leads, of any types, under each device
\* selection mode with a range of its settings.
InjectionSettings ==
  {[NewOrder EXCEPT !.selectionMode = "individual",
                    !.individualAssignments = [l \in S |-> "android"]] :
     S \in SUBSET OrderLeads}
  \cup {[NewOrder EXCEPT !.selectionMode = "bulk", !.bulkDeviceType = d] :
          d \in ValidDeviceTypes}
  \cup {[NewOrder EXCEPT !.selectionMode = "ratio", !.deviceRatio = w] :
          w \in {v \in Weights : \E d \in ValidDeviceTypes : v[d] > 0}}
  \cup {[NewOrder EXCEPT !.availableDeviceTypes = a] :
          a \in {{}, {"android"}, {"windows", "mac"}}}

InitInject ==
  /\ SessionIdle
  /\ FpInit
  /\ order \in InjectionSettings
  /\ leadType \in [OrderLeads -> LeadTypes]
  /\ injectionOf = [l \in OrderLeads |-> NoInjection]
  /\ orderClock = 0
  /\ firstFulfilled = NoTime

NextInject ==
  \/ StartInjection
  \/ \E l \in OrderLeads : ResolveDevice(l)
  \/ \E l \in OrderLeads : InjectLead(l)
  \/ PauseInjection
  \/ ResumeInjection
  \/ CompleteInjection
  \/ FailInjection

SpecInject == InitInject /\ [][NextInject]_vars


\* ------------------------------------------------------------- properties
\* A call has completed and its result has not been taken yet.  Under
\* SpecSeq nothing else runs in such a state: it is the state the call left.
Done(p, op) == pc[p] = "done" /\ call[p].op = op

\* The lead of the call carried a session reference when the call started.
HadRef(p) == pre[p].exists /\ pre[p].lead.sessionData.sessionId # NoSid

\* C1: when two captures for the same lead run concurrently (and the lead
\* update of neither is rejected by the database), exactly one of them
\* succeeds and the other fails with DuplicateCapture.
C1_ConcurrentCaptureExclusive ==
  \A p, q \in Procs :
    ( /\ p # q
      /\ Done(p, "capture") /\ Done(q, "capture")
      /\ call[p].lead = call[q].lead
      /\ pre[p].raced /\ pre[q].raced
      /\ res[p].err # "StoreFailed" /\ res[q].err # "StoreFailed" )
    => \/ res[p].ok /\ ~res[q].ok /\ res[q].err = "DuplicateCapture"
       \/ res[q].ok /\ ~res[p].ok /\ res[p].err = "DuplicateCapture"

\* C2: a capture for a lead that already has an active session record fails
\* with DuplicateCapture and leaves the lead's back-reference and the
\* existing record as they were.
C2_DuplicateCaptureRejected ==
  \A p \in Procs :
    (Done(p, "capture") /\ pre[p].hadActive /\ res[p].err # "StoreFailed")
    => /\ ~res[p].ok
       /\ res[p].err = "DuplicateCapture"
       /\ leads[call[p].lead] = pre[p].lead
       /\ pre[p].lead.sessionData.sessionPath \in DOMAIN files
       /\ files[pre[p].lead.sessionData.sessionPath] = pre[p].blob

\* C3: the store never holds more than one record with status 'active' for
\* a lead.
C3_OneActiveRecordPerLead ==
  \A l \in LeadIds : Cardinality(ActiveRecords(l)) <= 1

\* C4: a launch by an agent who is not the lead's current assignee (the lead
\* may be unassigned) fails with AccessDenied at the ownership test, and a
\* launch for a lead that does not exist fails before it: the call never
\* reaches retrieveSession or the spawn, and when it has completed the store
\* and the set of spawned drivers are as they were when it started.
C4_LaunchDenied ==
  \A p \in Procs :
    ( /\ call[p].op = "launch"
      /\ \/ ~pre[p].exists
         \/ pre[p].lead.assignedTo # call[p].agent )
    => /\ pc[p] = "done"
       /\ ~res[p].ok
       /\ res[p].err = IF pre[p].exists THEN "AccessDenied" ELSE "LeadNotFound"
       /\ spawned = pre[p].spawned
       /\ (HadRef(p) /\ pre[p].lead.sessionData.sessionPath \in DOMAIN files
             => files[pre[p].lead.sessionData.sessionPath] = pre[p].blob)

\* assignToAgent(L1, A1) was followed by launchReplay(L1, A2), which failed.
C4_Witness ==
  \E p \in Procs :
    /\ Done(p, "launch")
    /\ call[p].lead = "L1" /\ call[p].agent = "A2"
    /\ pre[p].exists /\ pre[p].lead.assignedTo = "A1"
    /\ res[p].err = "AccessDenied"

\* C5: the sessionId a successful capture returns is built from the lead,
\* the order, the time of the call and the random part; and a retrieve that
\* follows a successful capture of the lead, with no capture, sweep or
\* storage corruption in between, succeeds and returns that sessionId with
\* the cookies and the localStorage that were captured.
C5_CaptureThenRetrieve ==
  /\ \A p \in Procs :
       (Done(p, "capture") /\ res[p].ok)
       => /\ res[p].sessionId.lead = call[p].lead
          /\ res[p].sessionId.order = call[p].order
          /\ res[p].sessionId.ts \in 0..now
          /\ res[p].sessionId.rnd \in 1..(nextRnd - 1)
  /\ \A p \in Procs :
       ( /\ Done(p, "retrieve")
         /\ call[p].lead \in DOMAIN lastCapture
         /\ lastCapture[call[p].lead].set )
       => LET m == lastCapture[call[p].lead] IN
            /\ res[p].ok
            /\ res[p].sessionId = m.sessionId
            /\ m.payload.cookies.has
                 => res[p].sessionData.cookies = m.payload.cookies.v
            /\ m.payload.localStorage.has
                 => res[p].sessionData.localStorage = m.payload.localStorage.v

\* C6: a retrieve that follows a successful retrieve of the same lead
\* succeeds and returns the same sessionId and payload; and a successful
\* retrieve returns the payload of the stored record, leaves the lead as it
\* was and changes nothing in the stored record but lastUsed.
C6_RetrieveIdempotent ==
  \A p \in Procs :
    Done(p, "retrieve")
    => /\ (call[p].lead \in DOMAIN lastRet /\ lastRet[call[p].lead].set)
            => /\ res[p].ok
               /\ res[p].sessionId = lastRet[call[p].lead].sessionId
               /\ res[p].sessionData = lastRet[call[p].lead].sessionData
       /\ res[p].ok
            => /\ IsRecord(pre[p].blob)
               /\ res[p].sessionData = pre[p].blob.sessionData
               /\ res[p].sessionId = pre[p].blob.sessionId
               /\ leads[call[p].lead] = pre[p].lead
               /\ call[p].sid \in DOMAIN files
               /\ files[call[p].sid] =
                    [pre[p].blob EXCEPT !.lastUsed = res[p].lastUsed]

\* The second of two successive retrieves has completed, at a later time
\* than the first.
C6_Witness ==
  \E p \in Procs :
    /\ Done(p, "retrieve")
    /\ call[p].lead \in DOMAIN lastRet
    /\ lastRet[call[p].lead].set
    /\ res[p].ok
    /\ res[p].lastUsed # pre[p].blob.lastUsed

\* C7: retrieve fails with NoSession exactly when the lead carries no
\* session reference, and with SessionUnavailable when the lead references a
\* blob that is missing, unreadable or unparsable; it succeeds otherwise.
C7_ErrorKinds ==
  \A p \in Procs :
    Done(p, "retrieve")
    => IF ~HadRef(p)
       THEN ~res[p].ok /\ res[p].err = "NoSession"
       ELSE IF ~IsRecord(pre[p].blob)
            THEN ~res[p].ok /\ res[p].err = "SessionUnavailable"
            ELSE res[p].ok

\* A retrieve has failed on a corrupt blob.
C7_Witness ==
  \E p \in Procs :
    /\ Done(p, "retrieve")
    /\ HadRef(p)
    /\ pre[p].blob.kind = "corrupt"
    /\ res[p].err = "SessionUnavailable"

\* C8: when a retrieve and an assignToAgent have run concurrently on the
\* same record and both have completed, the stored record carries the agent
\* the assignment wrote and the lastUsed the retrieve wrote.
C8_NoLostUpdate ==
  \A p, q \in Procs :
    ( /\ p # q
      /\ Done(p, "assign") /\ res[p].ok /\ res[p].wrote
      /\ Done(q, "retrieve") /\ res[q].ok
      /\ call[p].sid = call[q].sid
      /\ pre[p].raced /\ pre[q].raced
      /\ call[p].sid \in DOMAIN files
      /\ IsRecord(files[call[p].sid]) )
    => /\ files[call[p].sid].assignedAgent = call[p].agent
       /\ files[call[p].sid].lastUsed = res[q].lastUsed

\* C9: assignToAgent for a lead without an active session record fails and
\* leaves the lead's assignment fields as they were.
C9_AssignRequiresActiveRecord ==
  \A p \in Procs :
    (Done(p, "assign") /\ pre[p].exists /\ ~pre[p].hadActive)
    => /\ ~res[p].ok
       /\ leads[call[p].lead].assignedTo = pre[p].lead.assignedTo
       /\ leads[call[p].lead].isAssigned = pre[p].lead.isAssigned

\* The lead, its session reference and its record (where it can be read)
\* already named the agent when the call started.
AlreadyAssigned(p) ==
  /\ pre[p].lead.assignedTo = call[p].agent
  /\ pre[p].lead.sessionData.assignedAgent = call[p].agent
  /\ IsRecord(pre[p].blob) => pre[p].blob.assignedAgent = call[p].agent

PersistedAgents(l) ==
  {leads[l].assignedTo, leads[l].sessionData.assignedAgent}
    \cup {files[f].assignedAgent :
            f \in {g \in DOMAIN files :
                     IsRecord(files[g]) /\ files[g].leadId = l}}

\* C11: after a session was re-assigned from one agent to a different agent,
\* the persisted state (the lead document and the session records of the
\* lead) still names the agent that was assigned before.
C11_ReassignmentAudited ==
  \A p \in Procs :
    ( /\ Done(p, "assign") /\ res[p].ok /\ res[p].wrote
      /\ pre[p].exists
      /\ pre[p].lead.assignedTo # NoAgent
      /\ pre[p].lead.assignedTo # call[p].agent )
    => pre[p].lead.assignedTo \in PersistedAgents(call[p].lead)


\* The blobs a sweep found when it started: those it has to delete, and
\* those it cannot read.
SweepExpired(p) ==
  {f \in DOMAIN pre[p].files :
     /\ IsRecord(pre[p].files[f])
     /\ pre[p].files[f].createdAt < call[p].cutoff}

SweepCorrupt(p) == {f \in DOMAIN pre[p].files : ~IsRecord(pre[p].files[f])}

\* C12: a sweep deletes exactly the readable records that were captured
\* strictly before now - maxAgeDays and leaves every other blob as it was,
\* however many blobs are corrupt; it returns success, counts every deleted
\* record, and counts every corrupt blob as an error (the only other errors
\* it counts are rejected lead updates of records it deleted).
C12_SweepDeletesExactlyExpired ==
  \A p \in Procs :
    Done(p, "sweep")
    => /\ res[p].ok
       /\ DOMAIN files = DOMAIN pre[p].files \ SweepExpired(p)
       /\ \A f \in DOMAIN files : files[f] = pre[p].files[f]
       /\ res[p].deleted = Cardinality(SweepExpired(p))
       /\ res[p].errors >= Cardinality(SweepCorrupt(p))
       /\ res[p].errors <= Cardinality(SweepCorrupt(p)) + res[p].deleted

\* A sweep met a corrupt blob and an expired record: it counted the one and
\* deleted the other.
C12_Witness ==
  \E p \in Procs :
    /\ Done(p, "sweep")
    /\ SweepCorrupt(p) # {}
    /\ SweepExpired(p) # {}
    /\ res[p].errors >= 1
    /\ res[p].deleted >= 1

\* C13: when a sweep has finished, no lead holds a reference to a blob the
\* sweep deleted.
C13_SweepClearsBackReference ==
  \A p \in Procs :
    Done(p, "sweep")
    => \A l \in DOMAIN leads :
         HasRef(l) => leads[l].sessionData.sessionPath \notin SweepExpired(p)


\* C16: the status of a session record follows active -> assigned ->
\* expired: the record a capture has stored is 'active', and the record of a
\* lead is 'assigned' once assignToAgent has succeeded and written it.
C16_StatusLifecycle ==
  \A p \in Procs :
    /\ (Done(p, "capture") /\ res[p].ok /\ call[p].sid \in DOMAIN files)
         => files[call[p].sid].status = "active"
    /\ ( /\ Done(p, "assign") /\ res[p].ok /\ res[p].wrote
         /\ call[p].sid \in DOMAIN files )
         => files[call[p].sid].status = "assigned"


\* C14: a launch returns its result in the step that spawns the driver,
\* while the process is still running, and as long as the caller holds the
\* result nothing changes it: not the driver's output and not its exit,
\* whatever the exit code.
C14_LaunchResultFinal ==
  [][\A p \in Procs :
       /\ ( /\ pc[p] = "launch_spawn" /\ pc'[p] = "done"
            /\ call'[p].spawn = "spawned" )
          => /\ res'[p].ok
             /\ drv'[[lead |-> call[p].lead, agent |-> call[p].agent]].running
       /\ (Done(p, "launch") /\ pc'[p] = "done") => res'[p] = res[p]
    ]_vars

\* The driver of a launch that returned success has exited with a non-zero
\* code, which was logged; the caller still holds the success result.
C14_Witness ==
  \E p \in Procs :
    /\ Done(p, "launch") /\ res[p].ok /\ call[p].spawn = "spawned"
    /\ LET d == [lead |-> call[p].lead, agent |-> call[p].agent] IN
         /\ d \in DOMAIN drv
         /\ ~drv[d].running /\ drv[d].code # 0 /\ drv[d].failureLogged

\* C15: a launch whose driver process could not be spawned is rejected with
\* DriverLaunchFailure and never returns a success result.
C15_SpawnFailureRejected ==
  \A p \in Procs :
    (Done(p, "launch") /\ call[p].spawn \in {"throws", "error_event"})
    => ~res[p].ok /\ res[p].err = "DriverLaunchFailure"


\* The numeric ranges of a constraint object.
RangeFields(s) == {s.memory, s.cores, s.width, s.height, s.pixelRatio}

\* C18: fingerprint synthesis fails with UnsupportedCategory for a device
\* type outside {windows, android, ios, mac}: generateFingerprint returns no
\* fingerprint for it, and createForLead rejects it (its error is the one
\* thrown for an invalid deviceType) and creates nothing.
C18_UnknownCategoryRejected ==
  /\ (gen.set /\ gen.deviceType \notin ValidDeviceTypes)
       => ~gen.ok /\ gen.err = "UnsupportedCategory"
  /\ \A p \in Procs :
       (fpc[p] = "done" /\ fcall[p].deviceType \notin ValidDeviceTypes)
       => ~fres[p].ok /\ fres[p].err = "InvalidDeviceType" /\ fres[p].id = 0

\* A range whose bounds are both given, with min > max.
Inverted(r) ==
  r.has /\ r.min # Undefined /\ r.max # Undefined /\ r.min > r.max

\* C19: for a constraint object in which a numeric range has min > max,
\* generateFingerprint fails with InvalidConstraint and returns no
\* fingerprint.
C19_InvertedRangeRejected ==
  (gen.set /\ \E r \in RangeFields(gen.specs) : Inverted(r))
  => ~gen.ok /\ gen.err = "InvalidConstraint"

\* A range that is absent, or whose bounds are both given with min <= max.
Ordered(r) ==
  r.has => r.min # Undefined /\ r.max # Undefined /\ r.min <= r.max

\* v is a value the range resolves to: a member of the preferred list when
\* there is one, otherwise an integer of [min, max].
Resolved(r, v) ==
  IF Len(r.preferred) > 0
  THEN \E i \in 1..Len(r.preferred) : v = r.preferred[i]
  ELSE v \in r.min..r.max

\* v is within the default d plus or minus the jitter bound j.
Within(v, d, j) == v \in (d - j)..(d + j)

\* C20: for a valid device type and a constraint object whose ranges have
\* min <= max, a constrained width, height, core count or memory comes out
\* as a value of its range (of its preferred list when there is one), and
\* an unconstrained one lies within the default of the device type plus or
\* minus 2 (width, height), 1 (memory), 1 (cores, mobile) or 2 (cores,
\* desktop).
C20_ConstrainedExactElseJitter ==
  ( /\ gen.set
    /\ gen.deviceType \in ValidDeviceTypes
    /\ \A r \in RangeFields(gen.specs) : Ordered(r) )
  => LET s == gen.specs
         o == gen.out
         c == Config(gen.deviceType)
     IN /\ IF s.width.has THEN Resolved(s.width, o.width)
           ELSE Within(o.width, c.width, 2)
        /\ IF s.height.has THEN Resolved(s.height, o.height)
           ELSE Within(o.height, c.height, 2)
        /\ IF s.memory.has THEN Resolved(s.memory, o.deviceMemory)
           ELSE Within(o.deviceMemory, c.deviceMemory, 1)
        /\ IF s.cores.has THEN Resolved(s.cores, o.hardwareConcurrency)
           ELSE Within(o.hardwareConcurrency, c.hardwareConcurrency,
                       IF gen.deviceType \in {"android", "ios"} THEN 1 ELSE 2)


\* C17: the collection never holds two Fingerprints of one lead; a
\* createForLead for a lead that had a Fingerprint when the call looked
\* fails with the duplicate error and creates nothing; and of two concurrent
\* calls for one lead that both found none, at most one creates a
\* Fingerprint, the other being refused by the unique index.
C17_OneFingerprintPerLead ==
  /\ \A l \in LeadIds : Cardinality(FingerprintsOf(l)) <= 1
  /\ \A p \in Procs :
       (fpc[p] = "done" /\ fcall[p].existing)
       => /\ ~fres[p].ok
          /\ fres[p].err = "DuplicateFingerprint"
          /\ fres[p].id = 0
  /\ \A p, q \in Procs :
       ( /\ p # q
         /\ fpc[p] = "done" /\ fpc[q] = "done"
         /\ fcall[p].lead = fcall[q].lead
         /\ fcall[q].deviceType \in ValidDeviceTypes
         /\ fres[p].ok )
       => ~fres[q].ok /\ fres[q].err \in {"DuplicateFingerprint", "DuplicateKey"}
  /\ \A p \in Procs :
       (fpc[p] = "done" /\ fres[p].ok)
       => \E d \in FingerprintsOf(fcall[p].lead) : d.id = fres[p].id

\* Two concurrent calls for one lead both found no Fingerprint; one created
\* it and the other was refused by the unique index.
C17_Witness ==
  \E p, q \in Procs :
    /\ p # q
    /\ fpc[p] = "done" /\ fpc[q] = "done"
    /\ fcall[p].lead = fcall[q].lead
    /\ ~fcall[p].existing /\ ~fcall[q].existing
    /\ fcall[p].deviceType \in ValidDeviceTypes
    /\ fcall[q].deviceType \in ValidDeviceTypes
    /\ fres[p].ok
    /\ fres[q].err = "DuplicateKey"


\* C21: every fingerprint generateFingerprint returns, for every device
\* type and constraint object, has availHeight <= height and availWidth <=
\* width, and an empty plugin list when the device type is android or ios.
C21_FingerprintConsistent ==
  gen.set
  => /\ gen.out.availHeight <= gen.out.height
     /\ gen.out.availWidth <= gen.out.width
     /\ gen.deviceType \in {"android", "ios"} => gen.out.plugins = <<>>

\* A fingerprint for android with a constrained height: its availHeight is
\* below the height.
C21_Witness ==
  /\ gen.set
  /\ gen.deviceType = "android"
  /\ gen.specs.height.has
  /\ gen.out.availHeight < gen.out.height
  /\ gen.out.plugins = <<>>

\* C22: completedAt is set exactly once, at the first save that finds the
\* status changed to fulfilled: before that save it is unset, from that save
\* on it holds that save's time, whatever the status becomes and however
\* often the order is saved afterwards.
C22_CompletedAtSetOnce == order.completedAt = firstFulfilled

\* The order was fulfilled, left that status and was saved as fulfilled
\* again at a later time; completedAt still holds the first time.
C22_Witness ==
  /\ order.status = "fulfilled"
  /\ ~order.statusModified
  /\ order.completedAt = 0
  /\ order.cancelledAt = 1
  /\ orderClock = 2

\* C23: the injection status of an order changes only from pending to
\* in_progress, from in_progress to completed, failed or paused, from paused
\* to in_progress, and from any status to failed.
C23_InjectionTransitions ==
  [][order'.injectionStatus # order.injectionStatus
       => <<order.injectionStatus, order'.injectionStatus>> \in
            {<<"pending", "in_progress">>, <<"in_progress", "completed">>,
             <<"in_progress", "failed">>, <<"in_progress", "paused">>,
             <<"paused", "in_progress">>, <<"pending", "failed">>,
             <<"completed", "failed">>, <<"paused", "failed">>}]_vars

\* An injection that was paused while a lead already had its device type.
C23_Witness ==
  /\ order.injectionStatus = "paused"
  /\ \E l \in OrderLeads : injectionOf[l].device \in ValidDeviceTypes

\* C24: in ratio mode no lead is assigned a device type whose weight is zero.
C24_ZeroWeightNeverAssigned ==
  order.selectionMode = "ratio"
  => \A l \in DOMAIN injectionOf :
       injectionOf[l].device \in ValidDeviceTypes
         => order.deviceRatio[injectionOf[l].device] > 0

\* Weights windows:2, android:1, mac:0, ios:0 and a lead assigned android.
C24_Witness ==
  /\ order.selectionMode = "ratio"
  /\ order.deviceRatio =
       [windows |-> 2, android |-> 1, ios |-> 0, mac |-> 0]
  /\ \E l \in OrderLeads : injectionOf[l].device = "android"

\* C25: a lead of type ftd never has a device type assigned or an injection
\* made, under any selection mode, and once the processing of an order with
\* an ftd lead has started ftdHandling.status is manual_fill_required.
C25_FtdNeverAutomated ==
  /\ \A l \in DOMAIN leadType :
       leadType[l] = "ftd" => injectionOf[l] = NoInjection
  /\ (/\ order.injectionStatus \in {"in_progress", "paused", "completed"}
      /\ \E l \in DOMAIN leadType : leadType[l] = "ftd")
     => order.ftdStatus = "manual_fill_required"

\* An order with an ftd lead and a filler lead whose injection completed.
C25_Witness ==
  /\ order.injectionStatus = "completed"
  /\ \E l \in OrderLeads : leadType[l] = "ftd"
  /\ \E l \in OrderLeads : leadType[l] = "filler" /\ injectionOf[l].injected = "ok"
  /\ order.ftdStatus = "manual_fill_required"

\* C26: a step of the sweep clears a lead's session back-reference only when
\* the record it has just deleted is the record that back-reference points
\* to; deleting an older record of the lead leaves the back-reference to a
\* newer, kept record alone.
C26_SweepClearsOnlyItsRecord ==
  [][\A p \in Procs, l \in ExistingLeads :
       (pc[p] = "sweep_lead" /\ HasRef(l) /\ ~HasRef(l)')
         => leads[l].sessionData.sessionId = call[p].sid]_vars

\* C27: when a sweep that deleted a record and a retrieve that ran
\* concurrently with it have both finished, the record the sweep deleted
\* does not exist in the store.
C27_DeletedRecordStaysDeleted ==
  \A p, q \in Procs :
    (/\ Done(p, "sweep")
     /\ res[p].deleted > 0
     /\ Done(q, "retrieve"))
    => call[p].sid \notin DOMAIN files

\* C28: when assignToAgent returns success for a lead whose session blob is
\* in the store, the record in the blob names the agent the lead names, in
\* assignedTo and in sessionData.assignedAgent, also when the blob could not
\* be read or written.
C28_RecordAgreesWithLead ==
  \A p \in Procs :
    (Done(p, "assign") /\ res[p].ok /\ call[p].sid \in DOMAIN files)
    => LET l == call[p].lead
           f == call[p].sid
       IN /\ leads[l].sessionData.assignedAgent = leads[l].assignedTo
          /\ IsRecord(files[f])
          /\ files[f].assignedAgent = leads[l].assignedTo

\* C29: a storeSession that fails leaves no session record of its own in
\* the store: when the lead update fails after the blob was written, the
\* blob is not there when the call has thrown.
C29_FailedCaptureLeavesNoRecord ==
  \A p \in Procs :
    (Done(p, "capture") /\ ~res[p].ok) => call[p].sid \notin DOMAIN files

\* C30: no capture reaches its file write while the directory creation the
\* constructor started has not completed, and that creation raises no error
\* when the directory already exists.
C30_DirectoryBeforeWrite ==
  /\ \A p \in Procs :
       (call[p].op = "capture" /\ pc[p] # "idle") => mkdir # "pending"
  /\ mkdir = "failed" => ~sessionsDir

====
